---- MODULE Spec2Model ----
(***************************************************************************)
(* SihmaSi (src/sihmasi.py): a sequential pipeline that checks for the     *)
(* external metadata tool, parses the command line, runs the tool on one   *)
(* file, classifies the tool's `Key : Value` lines into category buckets,  *)
(* pulls out the critical fields and renders them.                         *)
(*                                                                         *)
(* Texts are TLA+ strings; TLC treats a string as a sequence of            *)
(* one-character strings (Len, SubSeq, \o), so the Python string           *)
(* operations are modelled character by character.                         *)
(***************************************************************************)
EXTENDS Integers, Sequences, FiniteSets, TLC

\* Longest tool output explored, in lines.
MaxLines == 2

----------------------------------------------------------------------------
(* Python string primitives used by the program                            *)

\* str.lower() restricted to ASCII: the map of the upper-case letters.
UpperToLower ==
    [A |-> "a", B |-> "b", C |-> "c", D |-> "d", E |-> "e", F |-> "f",
     G |-> "g", H |-> "h", I |-> "i", J |-> "j", K |-> "k", L |-> "l",
     M |-> "m", N |-> "n", O |-> "o", P |-> "p", Q |-> "q", R |-> "r",
     S |-> "s", T |-> "t", U |-> "u", V |-> "v", W |-> "w", X |-> "x",
     Y |-> "y", Z |-> "z"]

LowerChar(c) == IF c \in DOMAIN UpperToLower THEN UpperToLower[c] ELSE c

RECURSIVE Lower(_)
Lower(s) ==
    IF Len(s) = 0 THEN ""
    ELSE LowerChar(SubSeq(s, 1, 1)) \o Lower(SubSeq(s, 2, Len(s)))

\* `kw in s`: kw occurs in s as a contiguous substring.
Contains(s, kw) ==
    \E i \in 1..(Len(s) - Len(kw) + 1) : SubSeq(s, i, i + Len(kw) - 1) = kw

\* any(x in s for x in kws)
ContainsAny(s, kws) == \E kw \in kws : Contains(s, kw)

\* The characters str.strip() removes that can occur inside one line.
Whitespace == {" ", "\t", "\r"}

RECURSIVE LStrip(_)
LStrip(s) ==
    IF Len(s) > 0 /\ SubSeq(s, 1, 1) \in Whitespace
    THEN LStrip(SubSeq(s, 2, Len(s)))
    ELSE s

RECURSIVE RStrip(_)
RStrip(s) ==
    IF Len(s) > 0 /\ SubSeq(s, Len(s), Len(s)) \in Whitespace
    THEN RStrip(SubSeq(s, 1, Len(s) - 1))
    ELSE s

Strip(s) == RStrip(LStrip(s))

\* Position of the first occurrence of the character c in s, 0 when absent.
Find(s, c) ==
    IF \E i \in 1..Len(s) : SubSeq(s, i, i) = c
    THEN CHOOSE i \in 1..Len(s) :
            /\ SubSeq(s, i, i) = c
            /\ \A j \in 1..(i - 1) : SubSeq(s, j, j) # c
    ELSE 0

\* s.split(sep): every piece between separators, empty pieces kept.
RECURSIVE Split(_, _)
Split(s, sep) ==
    LET i == Find(s, sep)
    IN  IF i = 0 THEN <<s>>
        ELSE <<SubSeq(s, 1, i - 1)>> \o Split(SubSeq(s, i + 1, Len(s)), sep)

\* s.split(sep, 1): split on the first occurrence only.
SplitFirst(s, sep) ==
    LET i == Find(s, sep)
    IN  IF i = 0 THEN <<s>>
        ELSE <<SubSeq(s, 1, i - 1), SubSeq(s, i + 1, Len(s))>>

\* s.replace(c, ''): every occurrence of the character c removed.
RECURSIVE Remove(_, _)
Remove(s, c) ==
    IF Len(s) = 0 THEN ""
    ELSE (IF SubSeq(s, 1, 1) = c THEN "" ELSE SubSeq(s, 1, 1))
            \o Remove(SubSeq(s, 2, Len(s)), c)

----------------------------------------------------------------------------
(* organize_metadata                                                       *)

CategoryOrder ==
    <<"GPS", "Camera", "Image", "File", "EXIF", "IPTC", "XMP", "Composite",
      "MakerNotes", "Other">>

CategoryNames == {CategoryOrder[i] : i \in 1..Len(CategoryOrder)}

EmptyCategories == [c \in CategoryNames |-> <<>>]

CameraKeywords ==
    {"camera", "lens", "flash", "focallength", "aperture", "shutterspeed", "iso"}
ExifKeywords == {"exif", "exposure", "metering", "whitebalance"}
ImageKeywords == {"width", "height", "resolution", "colorspace", "bitdepth"}
FileKeywords == {"file", "directory", "filesize", "mimetype"}

\* Faulty variant: the rules tested in the order the buckets are declared.
CategoryInBucketOrder(line_lower) ==
    IF Contains(line_lower, "gps") THEN "GPS"
    ELSE IF ContainsAny(line_lower, CameraKeywords) THEN "Camera"
    ELSE IF ContainsAny(line_lower, ImageKeywords) THEN "Image"
    ELSE IF ContainsAny(line_lower, FileKeywords) THEN "File"
    ELSE IF ContainsAny(line_lower, ExifKeywords) THEN "EXIF"
    ELSE IF Contains(line_lower, "iptc") THEN "IPTC"
    ELSE IF Contains(line_lower, "xmp") THEN "XMP"
    ELSE IF Contains(line_lower, "composite") THEN "Composite"
    ELSE IF Contains(line_lower, "makernote") THEN "MakerNotes"
    ELSE "Other"

\* The if/elif chain over line_lower.
CategoryOfLower(line_lower) ==
    IF Contains(line_lower, "gps") THEN "GPS"
    ELSE IF ContainsAny(line_lower, CameraKeywords) THEN "Camera"
    ELSE IF ContainsAny(line_lower, ExifKeywords) THEN "EXIF"
    ELSE IF Contains(line_lower, "iptc") THEN "IPTC"
    ELSE IF Contains(line_lower, "xmp") THEN "XMP"
    ELSE IF Contains(line_lower, "composite") THEN "Composite"
    ELSE IF Contains(line_lower, "makernote") THEN "MakerNotes"
    ELSE IF ContainsAny(line_lower, ImageKeywords) THEN "Image"
    ELSE IF ContainsAny(line_lower, FileKeywords) THEN "File"
    ELSE "Other"

\* Faulty variant: the keywords tested against the line as written, not lowered.
CategoryNoLower(line) == CategoryOfLower(line)

\* line_lower = line.lower(), then the chain.
Category(line) == CategoryOfLower(Lower(line))

\* Faulty variant: only blank lines skipped, the separator test forgotten.
SkippedBlankOnly(line) == Strip(line) = ""

\* `if not line.strip() or ':' not in line: continue`
Skipped(line) == Strip(line) = "" \/ ~Contains(line, ":")

RECURSIVE OrganizeLines(_, _)
OrganizeLines(lines, categories) ==
    IF lines = <<>> THEN categories
    ELSE LET line == Head(lines)
             next == IF Skipped(line) THEN categories
                     ELSE [categories EXCEPT ![Category(line)] = Append(@, line)]
         IN  OrganizeLines(Tail(lines), next)

\* `if not metadata: return categories`, then the loop over the lines.
organize_metadata(metadata) ==
    IF metadata = "" THEN EmptyCategories
    ELSE OrganizeLines(Split(metadata, "\n"), EmptyCategories)

----------------------------------------------------------------------------
(* extract_critical_info                                                   *)

GroupNames == {"gps", "camera", "datetime", "software", "owner"}

EmptyDict == [k \in {} |-> ""]

EmptyCritical == [g \in GroupNames |-> EmptyDict]

\* Faulty variant: the exclusion keyword not tested.
GpsValueFieldNoExclusion(line_lower, tag) == Contains(line_lower, tag)

\* A GPS value field: the tag occurs and the exclusion keyword does not.
GpsValueField(line_lower, tag) ==
    Contains(line_lower, tag) /\ ~Contains(line_lower, "ref")

NoField == <<>>

\* The if/elif chain: the <<group, field>> a line populates, or NoField.
CriticalField(line_lower) ==
    IF GpsValueField(line_lower, "gpslatitude") THEN <<"gps", "latitude">>
    ELSE IF GpsValueField(line_lower, "gpslongitude") THEN <<"gps", "longitude">>
    ELSE IF GpsValueField(line_lower, "gpsaltitude") THEN <<"gps", "altitude">>
    ELSE IF Contains(line_lower, "gpsposition") THEN <<"gps", "position">>
    ELSE IF Contains(line_lower, "gpsdatestamp") THEN <<"gps", "date">>
    ELSE IF Contains(line_lower, "gpstimestamp") THEN <<"gps", "time">>
    ELSE IF Contains(line_lower, "make") /\ ~Contains(line_lower, "model")
        THEN <<"camera", "make">>
    ELSE IF Contains(line_lower, "model") /\ Contains(line_lower, "camera")
        THEN <<"camera", "model">>
    ELSE IF Contains(line_lower, "lensmodel") \/ Contains(line_lower, "lensid")
        THEN <<"camera", "lens">>
    ELSE IF Contains(line_lower, "serialnumber") THEN <<"camera", "serial">>
    ELSE IF Contains(line_lower, "datetimeoriginal") THEN <<"datetime", "original">>
    ELSE IF Contains(line_lower, "createdate") THEN <<"datetime", "created">>
    ELSE IF Contains(line_lower, "modifydate") THEN <<"datetime", "modified">>
    ELSE IF Contains(line_lower, "software") THEN <<"software", "software">>
    ELSE IF Contains(line_lower, "creatortool") THEN <<"software", "creator">>
    ELSE IF Contains(line_lower, "artist") \/ Contains(line_lower, "creator")
        THEN <<"owner", "artist">>
    ELSE IF Contains(line_lower, "copyright") THEN <<"owner", "copyright">>
    ELSE IF Contains(line_lower, "ownername") THEN <<"owner", "owner">>
    ELSE NoField

\* value = line.split(':', 1)[1].strip()
LineValue(line) == Strip(SplitFirst(line, ":")[2])

\* Faulty variant: a field already set keeps its first value (setdefault).
AssignKeepFirst(critical, field, value) ==
    LET d == critical[field[1]]
    IN  [critical EXCEPT ![field[1]] =
            [k \in DOMAIN d \cup {field[2]} |->
                IF k \in DOMAIN d THEN d[k] ELSE value]]

\* critical[group][field] = value
Assign(critical, field, value) ==
    LET d == critical[field[1]]
    IN  [critical EXCEPT ![field[1]] =
            [k \in DOMAIN d \cup {field[2]} |->
                IF k = field[2] THEN value ELSE d[k]]]

RECURSIVE ExtractLines(_, _)
ExtractLines(lines, critical) ==
    IF lines = <<>> THEN critical
    ELSE LET line == Head(lines)
             field == CriticalField(Lower(line))
             next == IF ~Contains(line, ":") \/ field = NoField THEN critical
                     ELSE Assign(critical, field, LineValue(line))
         IN  ExtractLines(Tail(lines), next)

\* `if not metadata: return critical`, then the loop over the lines.
extract_critical_info(metadata) ==
    IF metadata = "" THEN EmptyCritical
    ELSE ExtractLines(Split(metadata, "\n"), EmptyCritical)

----------------------------------------------------------------------------
(* The environment of one run                                              *)

\* Lines the external tool may print (exiftool -a -u -g1 -s -n -ee -G1
\* style, plus the description-style line of the documentation example).
SampleLines ==
    {" ",
     "---- GPS ----",
     "GPSLatitude : 37.8",
     "GPSLatitude : 40.1",
     "GPSLatitudeRef : N",
     "GPSLongitude : -122.4",
     "GPSPosition: 37.8,-122.4",
     "GPSPosition : 37.8 -122.4",
     "[GPS]       GPS Latitude  : 37 deg 48' 0.00\" N",
     "[EXIF] GPSAltitude : 12",
     "[Composite] ISO : 100",
     "ExifImageWidth : 4000",
     "[IPTC] Keywords : x",
     "[XMP] CreatorTool : gimp",
     "[Composite] Megapixels : 12",
     "MakerNoteVersion : 1",
     "Make : Canon",
     "ImageWidth : 4000",
     "FileName : a.jpg",
     "ModifyDate : 2020:01:01"}

\* The tool's stdout for a sequence of lines: each line ends with a newline.
RECURSIVE JoinLines(_)
JoinLines(lines) ==
    IF lines = <<>> THEN "" ELSE Head(lines) \o "\n" \o JoinLines(Tail(lines))

Texts ==
    {JoinLines(lines) : lines \in UNION {[1..n -> SampleLines] : n \in 0..MaxLines}}

FilePath == "photo.jpg"

\* sys.argv of the runs explored.
Argvs ==
    {<<"sihmasi.py">>,
     <<"sihmasi.py", "--help">>,
     <<"sihmasi.py", "-h">>,
     <<"sihmasi.py", FilePath, "--help">>,
     <<"sihmasi.py", FilePath>>,
     <<"sihmasi.py", FilePath, "--raw", "-s">>}

InArgv(args, flag) == \E i \in 1..Len(args) : args[i] = flag

----------------------------------------------------------------------------
(* State                                                                   *)

VARIABLES
    installed,    \* exiftool is on the PATH
    fs,           \* the paths that exist
    argv,         \* sys.argv
    pc,           \* position in main
    exitCode,     \* the process exit code once pc = "exit"
    cmds,         \* the subprocesses started so far, in order
    tool,         \* what subprocess.run of the tool did
    metadata,     \* main's `metadata`
    shown,        \* the blocks printed: "usage", "help", "metadata"
    critical,     \* display_metadata's `critical`
    categories,   \* display_metadata's `categories` (detailed mode)
    field_count,  \* display_metadata's `field_count`
    mapLink,      \* the Google Maps line printed, <<>> when none
    report        \* "none", "saved" or "failed"

vars ==
    <<installed, fs, argv, pc, exitCode, cmds, tool, metadata, shown,
      critical, categories, field_count, mapLink, report>>

NotRun == [ran |-> FALSE, raised |-> FALSE, returncode |-> 0, stdout |-> ""]

None == [none |-> TRUE, text |-> ""]

Some(text) == [none |-> FALSE, text |-> text]

\* Python truthiness of `metadata`: neither None nor the empty string.
Truthy(m) == ~m.none /\ m.text # ""

Init ==
    /\ installed \in BOOLEAN
    /\ fs \in SUBSET {FilePath}
    /\ argv \in Argvs
    /\ pc = "check_dependencies"
    /\ exitCode = -1
    /\ cmds = <<>>
    /\ tool = NotRun
    /\ metadata = None
    /\ shown = {}
    /\ critical = EmptyCritical
    /\ categories = EmptyCategories
    /\ field_count = 0
    /\ mapLink = <<>>
    /\ report = "none"

\* sys.exit(code)
Exit(code) == pc' = "exit" /\ exitCode' = code

----------------------------------------------------------------------------
(* main                                                                    *)

\* check_dependencies and main's `if not check_dependencies(): sys.exit(1)`
CheckDependencies ==
    /\ pc = "check_dependencies"
    /\ cmds' = Append(cmds, <<"which", "exiftool">>)
    /\ IF installed
       THEN pc' = "parse_arguments" /\ UNCHANGED exitCode
       ELSE Exit(1)
    /\ UNCHANGED <<installed, fs, argv, tool, metadata, shown, critical,
                   categories, field_count, mapLink, report>>

\* `if len(sys.argv) < 2:` prints the usage and exits 1.
Usage ==
    /\ pc = "parse_arguments"
    /\ Len(argv) < 2
    /\ shown' = shown \cup {"usage"}
    /\ Exit(1)
    /\ UNCHANGED <<installed, fs, argv, cmds, tool, metadata, critical,
                   categories, field_count, mapLink, report>>

HelpRequested == InArgv(argv, "--help") \/ InArgv(argv, "-h")

\* `if '--help' in sys.argv or '-h' in sys.argv:` shows the help and exits 0.
ShowHelp ==
    /\ pc = "parse_arguments"
    /\ Len(argv) >= 2
    /\ HelpRequested
    /\ shown' = shown \cup {"help"}
    /\ Exit(0)
    /\ UNCHANGED <<installed, fs, argv, cmds, tool, metadata, critical,
                   categories, field_count, mapLink, report>>

file_path == argv[2]
save_output == InArgv(argv, "--save") \/ InArgv(argv, "-s")
mode == IF InArgv(argv, "--raw") \/ InArgv(argv, "-r") THEN "raw" ELSE "detailed"

\* Faulty variant: main goes on to the extraction without its existence check.
VerifyFileNoCheck ==
    /\ pc = "parse_arguments"
    /\ Len(argv) >= 2
    /\ ~HelpRequested
    /\ pc' = "extract"
    /\ UNCHANGED <<installed, fs, argv, exitCode, cmds, tool, metadata, shown,
                   critical, categories, field_count, mapLink, report>>

\* `if not os.path.exists(file_path): sys.exit(1)`
VerifyFile ==
    /\ pc = "parse_arguments"
    /\ Len(argv) >= 2
    /\ ~HelpRequested
    /\ IF file_path \in fs
       THEN pc' = "extract" /\ UNCHANGED exitCode
       ELSE Exit(1)
    /\ UNCHANGED <<installed, fs, argv, cmds, tool, metadata, shown, critical,
                   categories, field_count, mapLink, report>>

\* What subprocess.run(['exiftool', ...], check=True) can do: return with
\* exit code 0 and any stdout, fail with a non-zero exit code
\* (CalledProcessError), or raise another exception.
ToolResults ==
    {[ran |-> TRUE, raised |-> FALSE, returncode |-> 0, stdout |-> t] : t \in Texts}
    \cup {[ran |-> TRUE, raised |-> FALSE, returncode |-> 1, stdout |-> t] :
            t \in {"", JoinLines(<<"FileName : a.jpg">>)}}
    \cup {[ran |-> TRUE, raised |-> TRUE, returncode |-> 0, stdout |-> ""]}

\* The value extract_metadata_detailed returns for a result of the tool.
ExtractedFrom(r) ==
    IF r.raised \/ r.returncode # 0 THEN None ELSE Some(r.stdout)

\* metadata = extract_metadata_detailed(file_path)
ExtractMetadataDetailed ==
    /\ pc = "extract"
    /\ IF file_path \notin fs
       THEN /\ metadata' = None
            /\ UNCHANGED <<cmds, tool>>
       ELSE \E r \in ToolResults :
            /\ cmds' = Append(cmds, <<"exiftool", file_path>>)
            /\ tool' = r
            /\ metadata' = ExtractedFrom(r)
    /\ pc' = "extracted"
    /\ UNCHANGED <<installed, fs, argv, exitCode, shown, critical, categories,
                   field_count, mapLink, report>>

MapsPrefix == "https://www.google.com/maps?q="

\* Faulty variant: the position used as it is, its spaces kept.
MapLinkSpacesKept(crit) ==
    IF DOMAIN crit.gps # {} /\ "position" \in DOMAIN crit.gps
    THEN <<MapsPrefix \o crit.gps["position"]>>
    ELSE <<>>

\* The Google Maps line of the GPS block: <<link>>, or <<>> when none.
MapLink(crit) ==
    IF DOMAIN crit.gps # {} /\ "position" \in DOMAIN crit.gps
    THEN <<MapsPrefix \o Remove(crit.gps["position"], " ")>>
    ELSE <<>>

\* Faulty variant: the raw dump's filter, every non-blank line counted.
FieldCountNonBlank(text) ==
    LET lines == Split(text, "\n")
    IN  Cardinality({i \in 1..Len(lines) : Strip(lines[i]) # ""})

\* field_count = len([line for line in metadata.split('\n') if ':' in line])
FieldCount(text) ==
    LET lines == Split(text, "\n")
    IN  Cardinality({i \in 1..Len(lines) : Contains(lines[i], ":")})

ReportFile == FilePath \o "_metadata.txt"

\* main's `if metadata:` branch: display_metadata(...), then main returns
\* and the process ends with exit code 0.
DisplayMetadata ==
    /\ pc = "extracted"
    /\ Truthy(metadata)
    /\ shown' = shown \cup {"metadata"}
    /\ IF metadata.none \/ metadata.text = ""
       THEN UNCHANGED <<critical, categories, field_count, mapLink, report, fs>>
       ELSE /\ critical' = extract_critical_info(metadata.text)
            /\ mapLink' = MapLink(critical')
            /\ categories' = IF mode = "detailed"
                             THEN organize_metadata(metadata.text)
                             ELSE categories
            /\ field_count' = FieldCount(metadata.text)
            /\ IF save_output
               THEN \/ report' = "saved" /\ fs' = fs \cup {ReportFile}
                    \/ report' = "failed" /\ UNCHANGED fs
               ELSE UNCHANGED <<report, fs>>
    /\ Exit(0)
    /\ UNCHANGED <<installed, argv, cmds, tool, metadata>>

\* main's `else` branch: "Failed to extract metadata", sys.exit(1).
ExtractionFailed ==
    /\ pc = "extracted"
    /\ ~Truthy(metadata)
    /\ Exit(1)
    /\ UNCHANGED <<installed, fs, argv, cmds, tool, metadata, shown, critical,
                   categories, field_count, mapLink, report>>

Next ==
    \/ CheckDependencies
    \/ Usage
    \/ ShowHelp
    \/ VerifyFile
    \/ ExtractMetadataDetailed
    \/ DisplayMetadata
    \/ ExtractionFailed

Spec == Init /\ [][Next]_vars

----------------------------------------------------------------------------
(* Properties                                                              *)

\* display_metadata has run to its end.
Displayed == pc = "exit" /\ "metadata" \in shown

\* The lines of the text that was displayed.
InputLines == Split(metadata.text, "\n")

Count(seq, x) == Cardinality({i \in 1..Len(seq) : seq[i] = x})

Range(seq) == {seq[i] : i \in 1..Len(seq)}

\* A line that is non-empty after stripping and contains the separator.
Qualifies(line) ==
    /\ \E i \in 1..Len(line) : SubSeq(line, i, i) \notin Whitespace
    /\ \E i \in 1..Len(line) : SubSeq(line, i, i) = ":"

\* The text after the first separator of a line, stripped.
ValueOf(line) ==
    LET first == CHOOSE i \in 1..Len(line) :
                    /\ SubSeq(line, i, i) = ":"
                    /\ \A j \in 1..(i - 1) : SubSeq(line, j, j) # ":"
    IN  Strip(SubSeq(line, first + 1, Len(line)))

HasSeparator(line) == \E i \in 1..Len(line) : SubSeq(line, i, i) = ":"

\* C1: every line that is non-empty after stripping and contains ':' is in
\* exactly one of the ten buckets, as often as it occurs in the input; a line
\* that is empty or has no ':' is in none; the buckets hold input lines only.
C1_EveryFieldLineInExactlyOneBucket ==
    (Displayed /\ mode = "detailed") =>
        LET lines == InputLines
        IN  /\ DOMAIN categories = CategoryNames
            /\ \A line \in Range(lines) :
                IF Qualifies(line)
                THEN \E c \in CategoryNames :
                        /\ Count(categories[c], line) = Count(lines, line)
                        /\ \A d \in CategoryNames \ {c} :
                                line \notin Range(categories[d])
                ELSE \A c \in CategoryNames : line \notin Range(categories[c])
            /\ \A c \in CategoryNames : Range(categories[c]) \subseteq Range(lines)

C1_Witness ==
    /\ Displayed
    /\ mode = "detailed"
    /\ metadata.text = JoinLines(<<"---- GPS ----", "GPSLatitude : 37.8">>)
    /\ categories["GPS"] = <<"GPSLatitude : 37.8">>

\* The rules in the order of the claim: keywords, then bucket.
RulesInOrder ==
    <<<<{"gps"}, "GPS">>,
      <<{"camera", "lens", "flash", "focallength", "aperture", "shutterspeed",
         "iso"}, "Camera">>,
      <<{"exif", "exposure", "metering", "whitebalance"}, "EXIF">>,
      <<{"iptc"}, "IPTC">>,
      <<{"xmp"}, "XMP">>,
      <<{"composite"}, "Composite">>,
      <<{"makernote"}, "MakerNotes">>,
      <<{"width", "height", "resolution", "colorspace", "bitdepth"}, "Image">>,
      <<{"file", "directory", "filesize", "mimetype"}, "File">>>>

\* The bucket of the first rule of RulesInOrder, from rule i on, with a
\* keyword in the lowered line; Other when no rule has one.
RECURSIVE FirstRuleFrom(_, _)
FirstRuleFrom(lowered, i) ==
    IF i > Len(RulesInOrder) THEN "Other"
    ELSE IF \E kw \in RulesInOrder[i][1] : Contains(lowered, kw)
         THEN RulesInOrder[i][2]
         ELSE FirstRuleFrom(lowered, i + 1)

FirstMatchingRule(line) == FirstRuleFrom(Lower(line), 1)

\* C2: a separator-containing line is in the bucket of the first rule, in
\* the order GPS, Camera, EXIF, IPTC, XMP, Composite, MakerNotes, Image, File,
\* Other, whose keyword occurs case-insensitively in it, and in no other.
C2_FirstMatchingRuleWins ==
    (Displayed /\ mode = "detailed") =>
        \A line \in Range(InputLines) :
            Qualifies(line) =>
                LET bucket == FirstMatchingRule(line)
                IN  /\ line \in Range(categories[bucket])
                    /\ \A c \in CategoryNames \ {bucket} :
                            line \notin Range(categories[c])

C2_Witness ==
    /\ Displayed
    /\ mode = "detailed"
    /\ "[Composite] ISO : 100" \in Range(categories["Camera"])
    /\ "[EXIF] GPSAltitude : 12" \in Range(categories["GPS"])
    /\ categories["Composite"] = <<>>
    /\ categories["EXIF"] = <<>>

GpsValueFields == {"latitude", "longitude", "altitude"}

\* A line without the exclusion keyword.
NoRefLine(line) == ~Contains(Lower(line), "ref")

\* C3: the critical gps latitude, longitude and altitude are each absent or
\* the value of an input line that names the field and does not contain the
\* exclusion keyword 'ref'; and they are what the same input gives with its
\* 'ref' lines taken out, so a 'ref' line neither sets nor changes them.
C3_RefLinesNeverSetGpsValues ==
    Displayed =>
        LET lines == InputLines
            without == ExtractLines(SelectSeq(lines, NoRefLine), EmptyCritical)
        IN  \A f \in GpsValueFields :
                /\ f \in DOMAIN critical["gps"] <=> f \in DOMAIN without["gps"]
                /\ f \in DOMAIN critical["gps"] =>
                    /\ critical["gps"][f] = without["gps"][f]
                    /\ \E line \in Range(lines) :
                        /\ HasSeparator(line)
                        /\ Contains(Lower(line), "gps" \o f)
                        /\ NoRefLine(line)
                        /\ ValueOf(line) = critical["gps"][f]

C3_Witness ==
    /\ Displayed
    /\ metadata.text = JoinLines(<<"GPSLatitude : 37.8", "GPSLatitudeRef : N">>)
    /\ critical["gps"]["latitude"] = "37.8"

\* The critical field <<group, field>> a line populates, NoField when none.
LineField(line) ==
    IF HasSeparator(line) THEN CriticalField(Lower(line)) ELSE NoField

\* C4: a critical field holds the value of the last input line that
\* populates it, whatever the earlier lines that populated it held, and a
\* field no line populates is absent.
C4_LastLineWins ==
    Displayed =>
        LET lines == InputLines
        IN  /\ \A i \in 1..Len(lines) :
                LET F == LineField(lines[i])
                IN  F # NoField =>
                        /\ F[2] \in DOMAIN critical[F[1]]
                        /\ (\A j \in (i + 1)..Len(lines) : LineField(lines[j]) # F)
                                => critical[F[1]][F[2]] = ValueOf(lines[i])
            /\ \A g \in GroupNames :
                \A f \in DOMAIN critical[g] :
                    \E i \in 1..Len(lines) : LineField(lines[i]) = <<g, f>>

C4_Witness ==
    /\ Displayed
    /\ metadata.text = JoinLines(<<"GPSLatitude : 37.8", "GPSLatitude : 40.1">>)
    /\ critical["gps"]["latitude"] = "40.1"

ExampleLine == "[GPS]       GPS Latitude  : 37 deg 48' 0.00\" N"

ExampleValue == "37 deg 48' 0.00\" N"

\* C5 as stated: the example line, its tag written 'GPS Latitude', is put in
\* the GPS bucket and sets the critical gps latitude to its value.
C5_ExampleLineSetsLatitude ==
    (Displayed /\ mode = "detailed" /\ metadata.text = JoinLines(<<ExampleLine>>)) =>
        /\ categories["GPS"] = <<ExampleLine>>
        /\ "latitude" \in DOMAIN critical["gps"]
        /\ critical["gps"]["latitude"] = ExampleValue

\* C5 amended: the example line is put in the GPS bucket and populates no
\* critical field: alone it leaves every critical group empty, and among
\* other lines the critical gps latitude is never its value.
C5_ExampleLineInGpsBucketOnly ==
    (Displayed /\ ExampleLine \in Range(InputLines)) =>
        /\ mode = "detailed" =>
            Count(categories["GPS"], ExampleLine) = Count(InputLines, ExampleLine)
        /\ metadata.text = JoinLines(<<ExampleLine>>) => critical = EmptyCritical
        /\ "latitude" \in DOMAIN critical["gps"] =>
            critical["gps"]["latitude"] # ExampleValue

C5_Witness ==
    /\ Displayed
    /\ mode = "detailed"
    /\ metadata.text = JoinLines(<<ExampleLine>>)
    /\ categories["GPS"] = <<ExampleLine>>
    /\ critical["gps"] = EmptyDict

\* A run given a file path and no help flag.
FilePathRun == Len(argv) >= 2 /\ ~HelpRequested

\* C6 as stated: a file-path run ends with exit code 1 and nothing displayed
\* when the dependency is missing, the file does not exist or the tool exits
\* non-zero, and with exit code 0 whenever the dependency is present, the
\* file exists and the tool exits zero, whatever it wrote to stdout.
C6_ExitCodeByOutcome ==
    (pc = "exit" /\ FilePathRun) =>
        /\ (\/ ~installed
            \/ file_path \notin fs
            \/ (tool.ran /\ ~tool.raised /\ tool.returncode # 0))
                => (exitCode = 1 /\ "metadata" \notin shown)
        /\ (/\ installed
            /\ file_path \in fs
            /\ tool.ran /\ ~tool.raised /\ tool.returncode = 0)
                => exitCode = 0

\* C7 as stated: a run whose arguments include --help or -h shows the help
\* and ends with exit code 0 without running the extraction, whether the
\* external tool is installed or not.
C7_HelpAlwaysExitsZero ==
    (pc = "exit" /\ HelpRequested) =>
        /\ exitCode = 0
        /\ "help" \in shown
        /\ ~tool.ran

\* A file-path run whose file does not exist.
MissingFileRun == FilePathRun /\ file_path \notin fs

\* C8 as stated: in a run whose file path does not exist no subprocess is
\* started at any point, and the run ends with exit code 1.
C8_NoSubprocessForMissingFile ==
    MissingFileRun =>
        /\ cmds = <<>>
        /\ pc = "exit" => exitCode = 1

\* C8 amended: in a run whose file path does not exist the only subprocess is
\* the dependency check's `which exiftool`, started before the existence
\* check; the run stops at main's existence check, so the extraction tool is
\* never started and nothing is displayed, and it ends with exit code 1.
C8_OnlyDependencyCheckForMissingFile ==
    MissingFileRun =>
        /\ \A i \in 1..Len(cmds) : cmds[i] = <<"which", "exiftool">>
        /\ Len(cmds) <= 1
        /\ ~tool.ran
        /\ pc \notin {"extract", "extracted"}
        /\ pc = "exit" => (exitCode = 1 /\ "metadata" \notin shown)

C8_Witness ==
    /\ MissingFileRun
    /\ installed
    /\ pc = "exit"
    /\ exitCode = 1
    /\ cmds = <<<<"which", "exiftool">>>>

\* C9 as stated: a map link is rendered whenever the critical gps fields
\* hold latitude and longitude, or a position; for a position it is the
\* prefix followed by the position with its spaces removed.
C9_LinkForCoordinatesOrPosition ==
    Displayed =>
        LET gps == critical["gps"]
        IN  /\ (\/ {"latitude", "longitude"} \subseteq DOMAIN gps
                \/ "position" \in DOMAIN gps) => mapLink # <<>>
            /\ "position" \in DOMAIN gps =>
                    mapLink = <<MapsPrefix \o Remove(gps["position"], " ")>>

SpacesIn(s) == Cardinality({i \in 1..Len(s) : SubSeq(s, i, i) = " "})

\* C9 amended: a map link is rendered exactly when the critical gps fields
\* hold a position (latitude and longitude alone give none); it is
\* https://www.google.com/maps?q= followed by the position with its spaces
\* removed, so `GPSPosition: 37.8,-122.4` gives
\* https://www.google.com/maps?q=37.8,-122.4.
C9_LinkExactlyForPosition ==
    Displayed =>
        LET gps == critical["gps"]
        IN  /\ mapLink # <<>> <=> "position" \in DOMAIN gps
            /\ "position" \in DOMAIN gps =>
                LET link == mapLink[1]
                    n == Len("https://www.google.com/maps?q=")
                    q == SubSeq(link, n + 1, Len(link))
                IN  /\ SubSeq(link, 1, n) = "https://www.google.com/maps?q="
                    /\ SpacesIn(q) = 0
                    /\ Len(q) = Len(gps["position"]) - SpacesIn(gps["position"])
                    /\ gps["position"] = "37.8,-122.4" =>
                            link = "https://www.google.com/maps?q=37.8,-122.4"
                    /\ gps["position"] = "37.8 -122.4" =>
                            link = "https://www.google.com/maps?q=37.8-122.4"

C9_Witness ==
    /\ Displayed
    /\ metadata.text = JoinLines(<<"GPSPosition: 37.8,-122.4">>)
    /\ mapLink = <<"https://www.google.com/maps?q=37.8,-122.4">>

RECURSIVE SumLen(_, _)
SumLen(cats, names) ==
    IF names = {} THEN 0
    ELSE LET c == CHOOSE x \in names : TRUE
         IN  Len(cats[c]) + SumLen(cats, names \ {c})

\* C10: the field count display_metadata reports equals the sum of the sizes
\* of the ten buckets organize_metadata builds from the same text, and the
\* counted lines are the categorized lines.
C10_FieldCountIsBucketTotal ==
    Displayed =>
        LET cats == IF mode = "detailed" THEN categories
                    ELSE organize_metadata(metadata.text)
        IN  /\ field_count = SumLen(cats, CategoryNames)
            /\ UNION {Range(cats[c]) : c \in CategoryNames}
                    = {line \in Range(InputLines) : HasSeparator(line)}

C10_Witness ==
    /\ Displayed
    /\ mode = "raw"
    /\ metadata.text = JoinLines(<<"---- GPS ----", "Make : Canon">>)
    /\ field_count = 1

====
